---- MODULE Spec2Model ----
(***************************************************************************)
(* State-machine model of the RAG question-answering path of RAG_GAN:      *)
(* the RAGQueryExample screen, the ragAPI service, the HttpClient, the     *)
(* network, and the backend Query Service behind /rag/query and            *)
(* /rag/status.  The client side is translated from the TypeScript         *)
(* sources; the backend is not part of the sources and is modelled from    *)
(* the specification (those definitions are marked "backend").             *)
(***************************************************************************)
EXTENDS Integers, Sequences, FiniteSets, TLC

VARIABLES
    question,      \* RAGQueryExample: useState('') question text
    loading,       \* RAGQueryExample: useState(false)
    result,        \* RAGQueryExample: useState<RAGQueryResponse | null>(null)
    error,         \* RAGQueryExample: useState<string | null>(null)
    phase,         \* the last handleQuery: "none" | "rejected" | "accepted" | "done"
    pc,            \* the ragAPI call: "idle" | "inflight" | "settled"
    call,          \* the ragAPI call being made (or the last one made)
    wire,          \* the fetch: the request on the wire, then what fetch settled with
    fetches,       \* number of fetch() invocations made for the current call
    outcome,       \* how the last ragAPI call ended: returned a value or threw
    httpResp,      \* the HttpResponse the last HttpClient.request returned
    auth_token,    \* SecureStore item 'auth_token'
    index,         \* backend: the active index generation (entries in ingestion order)
    generation,    \* backend: number of the active index generation
    serviceState,  \* backend: NotReady | Ready | Degraded, as evaluated by the last call
    srv,           \* backend: what the Query Service did for the last request it served
    staging,       \* backend: the index generation ingestion is writing
    target,        \* backend: chunks the running ingestion will write (none running: <<>>)
    built,         \* backend: the size of every generation that was completed
    retr,          \* backend: the retrieval step of each in-flight query
    badBefore,     \* history: some earlier query call ended degraded or failed
    document,      \* Chunker: the normalized text of the document being ingested
    chunk_size,    \* Chunker: configured chunk size, in characters
    chunk_overlap, \* Chunker: configured overlap, in characters
    chunks,        \* Chunker: the chunk list produced, in order
    rejoined,      \* the text rebuilt from the chunk list
    chunker,       \* Chunker: "idle" | "loaded" | "chunked" | "rejoined" | "ConfigError"
    route,         \* expo-router: the screen (route group) the app is on
    user,          \* AuthProvider: useState<User | null>(null)
    token,         \* AuthProvider: useState<string | null>(null)
    isLoading,     \* AuthProvider: useState(true)
    authError,     \* AuthProvider: useState<string | null>(null) error
    auth_user,     \* SecureStore item 'auth_user': the stored JSON text, <<>> when absent
    authOp,        \* the AuthProvider operation running (or the last one run)
    timer,         \* the pending setTimeout callback of a login / signup screen
    nav,           \* the last redirect made: by whom, where to, for which user
    lastLogin,     \* history: token and user of the last successful login
    validate,      \* useForm: the validator the form was created with
    values,        \* useForm: useState<T>(initialValues)
    errors,        \* useForm: useState<FormErrors>({}), field -> message
    touched,       \* useForm: the fields whose touched flag is true
    isSubmitting,  \* useForm: useState(false)
    formOp,        \* the last handler of the form that ran, and what it did
    pending,       \* the AuthProvider operations called and not yet settled
    hook,          \* useAsync: whether a component uses it, with which arguments
    state,         \* useAsync: useState<AsyncState<T>>: data, loading, error
    isMountedRef,  \* useAsync: useRef(true), its .current
    runs,          \* useAsync: the executions awaiting asyncFunction()
    messages,      \* ConversationScreen: useState<ChatMessage[]>([]), the list shown
    newMessage,    \* ConversationScreen: useState(''), the text typed
    loadCall,      \* ConversationScreen: the load() of the mount effect and its response
    sends,         \* ConversationScreen: the sendMessage() calls awaiting the API
    conversation   \* messages backend: the stored conversation, oldest first

\* the question-answering path: screen, client, network, Query Service
ragVars == <<question, loading, result, error, phase, pc, call, wire, fetches,
             outcome, httpResp, auth_token, index, generation, serviceState, srv,
             staging, target, built, retr, badBefore>>

\* the Chunker's run
chunkVars == <<document, chunk_size, chunk_overlap, chunks, rejoined, chunker>>

\* the app around it: AuthProvider, SecureStore 'auth_user', navigation
appVars == <<route, user, token, isLoading, authError, auth_user, authOp,
             timer, nav, lastLogin>>

\* the form of a login screen (hooks/useForm)
formVars == <<validate, values, errors, touched, isSubmitting, formOp>>

\* the calls of AuthProvider operations that overlap
callVars == <<pending>>

\* a component using hooks/useAsync
asyncVars == <<hook, state, isMountedRef, runs>>

\* the conversation screen and the messages backend
chatVars == <<messages, newMessage, loadCall, sends, conversation>>

vars == <<ragVars, chunkVars, appVars, formVars, callVars, asyncVars, chatVars>>

\* what an action of one part leaves alone: the other parts
outsideRag == <<chunkVars, appVars, formVars, callVars, asyncVars, chatVars>>
outsideChunker == <<ragVars, appVars, formVars, callVars, asyncVars, chatVars>>
outsideApp == <<chunkVars, formVars, callVars, asyncVars, chatVars>>
outsideForm == <<ragVars, chunkVars, appVars, callVars, asyncVars, chatVars>>
outsideCalls == <<chunkVars, formVars, asyncVars, chatVars>>
outsideAsync == <<ragVars, chunkVars, appVars, formVars, callVars, chatVars>>
outsideChat == <<ragVars, chunkVars, appVars, formVars, callVars, asyncVars>>

\* what an action of the app leaves alone of the question-answering path
\* when it makes no request
ragIdle == <<question, loading, result, error, phase, index, generation,
             serviceState, staging, target, built, retr, badBefore>>

uiVars == <<question, loading, result, error, phase>>
backendVars == <<index, generation, serviceState, srv>>
buildVars == <<staging, target, built, retr>>
clientVars == <<pc, call, wire, fetches, outcome, httpResp, auth_token, badBefore>>

----------------------------------------------------------------------------
(* Program constants *)

MinChars == 5
MaxChars == 500
MinTopK == 1
MaxTopK == 10
DefaultTopK == 3
HandleQueryTopK == 3
ExampleLen == 51

(* Bounds of the model *)

MaxPad == 1        \* leading / trailing blanks of a typed question
MaxChunks == 4     \* chunks in one index generation
MaxGen == 2        \* index generations built
MaxQueries == 2    \* queries in their retrieval step at once
MaxDocLen == 6     \* characters in a document
MaxChunkSize == 3  \* largest configured chunk_size

----------------------------------------------------------------------------
(* JavaScript values *)

\* null / undefined of a string-valued field
Null == "<null>"

\* JS truthiness of a string | null | undefined
Truthy(s) == s \notin {Null, ""}

\* a || b on strings
OrElse(a, b) == IF Truthy(a) THEN a ELSE b

(* Users, and their JSON text *)

\* null (no user)
NoUser == [id |-> Null, role |-> Null, avatar |-> Null]

ClientUser == [id |-> "u1", role |-> "client", avatar |-> "ann.png"]

\* a user whose optional avatar is undefined
ConsultantUser == [id |-> "u2", role |-> "consultant", avatar |-> Null]

Users == {ClientUser, ConsultantUser}

\* JSON.stringify(user): the key-value pairs of the properties that are
\* defined, in order; an undefined property is left out
stringify(u) ==
    SelectSeq(<< <<"id", u.id>>, <<"role", u.role>>, <<"avatar", u.avatar>> >>,
              LAMBDA kv : kv[2] # Null)

\* the value of property k in a JSON text, undefined when it has none
property(json, k) ==
    IF \E i \in 1..Len(json) : json[i][1] = k
    THEN json[CHOOSE i \in 1..Len(json) : json[i][1] = k][2]
    ELSE Null

\* JSON.parse(storedUser) as User
parse(json) ==
    [id |-> property(json, "id"), role |-> property(json, "role"),
     avatar |-> property(json, "avatar")]

\* the access tokens the backend issues
Tokens == {"token-1", "token-2"}

\* A question text, kept as its shape: leading blanks, the part from the
\* first to the last non-blank character, trailing blanks.
Text(l, c, t) == [lead |-> l, core |-> c, trail |-> t]

\* question.length
QLen(q) == IF q.core = 0 THEN q.lead + q.trail ELSE q.lead + q.core + q.trail

\* question.trim()
Trim(q) == Text(0, q.core, 0)

CoreLens == {0, MinChars - 1, MinChars, MaxChars, MaxChars + 1}

\* the texts typed into the input: the boundary lengths, the shortest and
\* the longest with up to MaxPad blanks after them, and a text of blanks only
Questions ==
    {Text(0, c, 0) : c \in CoreLens \ {0}}
        \cup {Text(0, c, t) : c \in {MinChars - 1, MaxChars}, t \in 1..MaxPad}
        \cup {Text(MinChars, 0, 0)}

\* the questions other callers of ragAPI pass: already trimmed
DirectQuestions == {Text(0, c, 0) : c \in CoreLens \ {0}}

\* top_k?: number -- <<>> is undefined, <<k>> is the number k
TopKs == {<<>>} \cup {<<k>> : k \in {MinTopK - 1, MinTopK, MaxTopK, MaxTopK + 1}}

----------------------------------------------------------------------------
(* Response bodies: what response.json() yields *)

EmptyObject ==
    [shape |-> "object", str |-> "", detail |-> Null, error |-> Null,
     message |-> Null, answer |-> Null, chunks |-> <<>>, ready |-> FALSE,
     document_count |-> 0, access_token |-> Null]

NullBody == [EmptyObject EXCEPT !.shape = "null"]

StringBody(s) == [EmptyObject EXCEPT !.shape = "string", !.str = s]

DetailBody(d) == [EmptyObject EXCEPT !.detail = d]

\* !data
Falsy(data) == data.shape = "null" \/ (data.shape = "string" /\ data.str = "")

----------------------------------------------------------------------------
(* HttpClient (services/http.ts) *)

\* statusMessages[status]; Null where the table has no entry
statusMessages(status) ==
    CASE status = 400 -> "Bad request"
      [] status = 401 -> "Unauthorized"
      [] status = 403 -> "Forbidden"
      [] status = 404 -> "Not found"
      [] status = 409 -> "Conflict"
      [] status = 422 -> "Validation error"
      [] status = 500 -> "Server error"
      [] status = 503 -> "Service unavailable"
      [] OTHER -> Null

\* HttpClient.parseError(data, status)
parseError(data, status) ==
    IF data.shape = "string" THEN data.str
    ELSE IF data.shape = "object" /\ Truthy(data.detail) THEN data.detail
    ELSE IF data.shape = "object" /\ Truthy(data.error) THEN data.error
    ELSE IF data.shape = "object" /\ Truthy(data.message) THEN data.message
    ELSE OrElse(statusMessages(status), "An error occurred")

\* response.ok
ResponseOk(status) == status \in 200..299

\* data = await response.json(), null when the body does not parse
ParsedBody(w) == IF w.jsonOk THEN w.body ELSE NullBody

\* What HttpClient.request returns once fetch has settled with w: the catch
\* branch for a rejected fetch, the !response.ok branch, the success branch.
requestReturns(w) ==
    IF w.stage = "reject"
    THEN [success |-> FALSE, data |-> NullBody,
          error |-> IF w.isError THEN w.message ELSE "Network error",
          status |-> 0]
    ELSE IF ~ResponseOk(w.status)
    THEN [success |-> FALSE, data |-> NullBody,
          error |-> parseError(ParsedBody(w), w.status),
          status |-> w.status]
    ELSE [success |-> TRUE, data |-> ParsedBody(w), error |-> Null,
          status |-> w.status]

\* (variant: the token is deleted on every error status)
tokenAfterAnyError(w, stored) ==
    IF w.stage = "response" /\ ~ResponseOk(w.status) THEN Null ELSE stored

\* SecureStore 'auth_token' after HttpClient.request handled w: deleted on 401
tokenAfter(w, stored) ==
    IF w.stage = "response" /\ w.status = 401 THEN Null ELSE stored

----------------------------------------------------------------------------
(* ragAPI (services/api/rag.ts) *)

NoOutcome == [kind |-> "none", data |-> NullBody, message |-> ""]

\* the tail shared by ragAPI.query, queryGet and getStatus:
\*   if (!resp.success || !resp.data) throw new Error(resp.error || fallback)
\*   return resp.data
unwrap(resp, fallback) ==
    IF ~resp.success \/ Falsy(resp.data)
    THEN [kind |-> "threw", data |-> NullBody,
          message |-> OrElse(resp.error, fallback)]
    ELSE [kind |-> "returned", data |-> resp.data, message |-> ""]

\* (variant: the call also throws when the body carries an error)
queryReturnsStrict(resp) ==
    IF Truthy(resp.data.error)
    THEN [kind |-> "threw", data |-> NullBody, message |-> resp.data.error]
    ELSE unwrap(resp, "RAG query failed")

\* ragAPI.query / ragAPI.queryGet after the request returned
queryReturns(resp) == unwrap(resp, "RAG query failed")

\* ragAPI.getStatus after the request returned
getStatusReturns(resp) == unwrap(resp, "Failed to get RAG status")

\* (variant: the body carries the question only)
queryBodyTopKDropped(top_k) == <<>>

\* the top_k ragAPI.query puts in the POST body: the caller's, unchanged
queryBodyTopK(top_k) == top_k

\* the top_k ragAPI.queryGet appends to the URL: only when not undefined
queryGetParamTopK(top_k) == top_k

----------------------------------------------------------------------------
(* RAGQueryExample.handleQuery (components/examples/RAGQueryExample.tsx) *)

\* the pre-flight check: !(!question.trim() || question.length < 5)
passesCheck(q) == ~(Trim(q).core = 0 \/ QLen(q) < MinChars)

\* Button disabled={loading || question.length < 5}
buttonEnabled(q, busy) == ~(busy \/ QLen(q) < MinChars)

\* the question handleQuery submits: question.trim()
submitted(q) == Trim(q)

\* (variant: the error of the previous call is left standing)
errorOnStartKept(err) == err

\* setError(null) before the request
errorOnStart(err) == Null

\* setResult(response) in the try block, whether or not response.error is set
resultOnReturn(data, res) == data

\* (variant: the catch block swallows what was thrown)
errorOnSettleSwallowed(o, err) ==
    IF o.kind = "returned" /\ Truthy(o.data.error) THEN o.data.error ELSE err

\* the error state after the call: response.error when truthy, the caught
\* error's message (or the fallback) when the call threw
errorOnSettle(o, err) ==
    IF o.kind = "returned"
    THEN IF Truthy(o.data.error) THEN o.data.error ELSE err
    ELSE OrElse(o.message, "Failed to get answer")

----------------------------------------------------------------------------
(* Backend Query Service, modelled from the specification *)

Min(a, b) == IF a <= b THEN a ELSE b

\* An index entry of generation g: its chunk's sequence number and its
\* similarity score for the query.
Entry(g, i, sc) == [gen |-> g, seq |-> i, score |-> sc]

\* The index generation g that ingestion builds from a corpus of n chunks
BuildIndex(g, n) == [i \in 1..n |-> Entry(g, i, (i % 2) + 1)]

\* (variant: among the highest scores the entry ingested last ranks first)
BestLatest(s) ==
    CHOOSE i \in 1..Len(s) :
        \A j \in 1..Len(s) :
            s[j].score < s[i].score \/ (s[j].score = s[i].score /\ j <= i)

\* position of the entry that ranks first: highest score, earliest ingested
Best(s) ==
    CHOOSE i \in 1..Len(s) :
        \A j \in 1..Len(s) :
            s[j].score < s[i].score \/ (s[j].score = s[i].score /\ j >= i)

Remove(s, i) == SubSeq(s, 1, i - 1) \o SubSeq(s, i + 1, Len(s))

RECURSIVE Rank(_)
\* entries by descending score, ties in ingestion order
Rank(s) == IF s = <<>> THEN <<>> ELSE <<s[Best(s)]>> \o Rank(Remove(s, Best(s)))

\* Vector index search(query_vector, k): at most k entries, best first
search(idx, k) == SubSeq(Rank(idx), 1, Min(k, Len(idx)))

\* top_k with its default
effectiveTopK(top_k) == IF top_k = <<>> THEN DefaultTopK ELSE top_k[1]

\* Query Service validation: question length and top_k within bounds
validRequest(qlen, top_k) ==
    /\ qlen \in MinChars..MaxChars
    /\ effectiveTopK(top_k) \in MinTopK..MaxTopK

\* The attempts of one language-model provider call, as the provider answers
\* them: the second entry is the answer to the retry, if one is made.
LlmScripts ==
    {<<"ok">>, <<"validation">>, <<"config">>,
     <<"transient", "ok">>, <<"transient", "transient">>}

\* Answer Generator: provider calls made, retrying exactly once on a
\* transient error and never on a validation-class or configuration error
llmCalls(script) == IF script[1] = "transient" THEN 2 ELSE 1

\* Answer Generator: whether the last attempt made succeeded
llmOk(script) == script[llmCalls(script)] = "ok"

GeneratedAnswer == "Based on the provided sources, ..."
DegradedAnswer == "[LLM unavailable] Unable to retrieve an answer"
UnavailableMessage == "RAG service is not available"

\* the degraded marker is present in an answer
hasDegradedMarker(ans) == ans = DegradedAnswer

NotServed ==
    [class |-> "none", chunks |-> <<>>, answer |-> Null, error |-> Null,
     embedCalls |-> 0, llmCalls |-> 0, docCount |-> 0, k |-> 0]

\* Query Service answer(question, top_k): validate, check readiness, embed and
\* retrieve, generate.  emb is the embedder's answer ("ok" | "down"), script
\* the language-model provider's.
answer(qlen, top_k, idx, emb, script) ==
    IF ~validRequest(qlen, top_k)
    THEN [NotServed EXCEPT !.class = "ValidationError",
                           !.error = "question or top_k out of range",
                           !.docCount = Len(idx)]
    ELSE IF Len(idx) = 0
    THEN [NotServed EXCEPT !.class = "UnavailableError",
                           !.error = UnavailableMessage,
                           !.docCount = Len(idx),
                           !.k = effectiveTopK(top_k)]
    ELSE IF emb # "ok"
    THEN [NotServed EXCEPT !.class = "UnavailableError",
                           !.error = UnavailableMessage,
                           !.embedCalls = 1, !.docCount = Len(idx),
                           !.k = effectiveTopK(top_k)]
    ELSE IF ~llmOk(script)
    THEN [class |-> "Degraded",
          chunks |-> search(idx, effectiveTopK(top_k)),
          answer |-> DegradedAnswer, error |-> "LLM provider failed",
          embedCalls |-> 1, llmCalls |-> llmCalls(script),
          docCount |-> Len(idx), k |-> effectiveTopK(top_k)]
    ELSE [class |-> "Ok",
          chunks |-> search(idx, effectiveTopK(top_k)),
          answer |-> GeneratedAnswer, error |-> Null,
          embedCalls |-> 1, llmCalls |-> llmCalls(script),
          docCount |-> Len(idx), k |-> effectiveTopK(top_k)]

\* Query Service state as evaluated by one call; a rejected request evaluates
\* nothing and leaves it as it was.
stateAfter(a, prev) ==
    CASE a.class = "Ok" -> "Ready"
      [] a.class = "Degraded" -> "Degraded"
      [] a.class = "UnavailableError" -> "NotReady"
      [] OTHER -> prev

\* (variant: ready whenever the collection exists, empty or not)
statusOfCollection(idx) ==
    [EmptyObject EXCEPT !.ready = TRUE, !.document_count = Len(idx)]

\* Query Service status(): ready only with a populated index
status(idx) ==
    [EmptyObject EXCEPT !.ready = Len(idx) > 0,
                        !.document_count = Len(idx),
                        !.message = IF Len(idx) > 0 THEN Null
                                    ELSE UnavailableMessage]

\* the chunk {id, text, source} the query operation returns for an entry
sourceChunk(e) == [gen |-> e.gen, seq |-> e.seq]

\* the query operation's response body for an answer
answerBody(a) ==
    [EmptyObject EXCEPT !.answer = a.answer,
                        !.chunks = [i \in 1..Len(a.chunks) |-> sourceChunk(a.chunks[i])],
                        !.error = a.error]

\* the HTTP status the query operation answers with; an unavailable service
\* answers 503, or 200 with the error in the body (inBody)
answerStatus(a, inBody) ==
    CASE a.class = "ValidationError" -> 422
      [] a.class = "UnavailableError" /\ ~inBody -> 503
      [] OTHER -> 200

----------------------------------------------------------------------------
(* State *)

Tok == "token-1"

NoCall == [op |-> "none", caller |-> "none", raw |-> Text(0, 0, 0),
           q |-> Text(0, 0, 0), top_k |-> <<>>]

NoWire ==
    [stage |-> "none", op |-> "none", qlen |-> 0, top_k |-> <<>>,
     authorized |-> FALSE, from |-> "none", status |-> 0, body |-> NullBody,
     jsonOk |-> TRUE, isError |-> TRUE, message |-> ""]

NoResp == [success |-> FALSE, data |-> NullBody, error |-> Null, status |-> 0]

NoRetrieval == [st |-> "idle", gen |-> 0, ref |-> <<>>, seen |-> <<>>]

\* no AuthProvider operation; screen is the screen whose submit called it,
\* fresh the access token the operation was issued
NoAuthOp == [name |-> "none", stage |-> "none", screen |-> "none", fresh |-> Null]

\* the AuthProvider has mounted: its initializeAuth effect is about to run
InitializeAuth == [NoAuthOp EXCEPT !.name = "initializeAuth", !.stage = "start"]

\* the form of the login screens: useForm({ email: '', password: '' }, ...)
initialValues == [email |-> "", password |-> ""]

\* no handler of the form has run; passed is what onSubmit was called with
NoFormOp == [name |-> "none", called |-> FALSE, passed |-> initialValues]

\* the n-th message the backend created: its id and its created_at
Message(n) == [id |-> n, created_at |-> n]

\* the conversation screen has mounted: the load() of its effect is to run;
\* data is the response of getConversation once the backend has answered
LoadToRun == [stage |-> "start", data |-> <<>>]

\* no component uses useAsync
NoHook == [mounted |-> FALSE, immediate |-> FALSE, deps |-> 0]

\* useAsync: useState({ data: null, loading: false, error: null })
InitialState == [data |-> Null, loading |-> FALSE, error |-> Null]

\* no redirect made
NoNav == [by |-> "none", to |-> "none", user |-> NoUser, authed |-> FALSE]

Init ==
    /\ question = Text(0, 0, 0)
    /\ loading = FALSE
    /\ result = NullBody
    /\ error = Null
    /\ phase = "none"
    /\ pc = "idle"
    /\ call = NoCall
    /\ wire = NoWire
    /\ fetches = 0
    /\ outcome = NoOutcome
    /\ httpResp = NoResp
    /\ auth_token = Tok
    /\ index = <<>>
    /\ generation = 0
    /\ serviceState = "NotReady"
    /\ srv = NotServed
    /\ staging = <<>>
    /\ target = <<>>
    /\ built = [g \in {0} |-> 0]
    /\ retr = [i \in 1..MaxQueries |-> NoRetrieval]
    /\ badBefore = FALSE
    /\ document = <<>>
    /\ chunk_size = 1
    /\ chunk_overlap = 0
    /\ chunks = <<>>
    /\ rejoined = <<>>
    /\ chunker = "idle"
    /\ route = "index"
    /\ user = NoUser
    /\ token = Null
    /\ isLoading = TRUE
    /\ authError = Null
    /\ auth_user = stringify(ClientUser)
    /\ authOp = InitializeAuth
    /\ timer = "none"
    /\ nav = NoNav
    /\ lastLogin = [token |-> Tok, user |-> ClientUser]
    /\ validate = "unmounted"
    /\ values = initialValues
    /\ errors = <<>>
    /\ touched = {}
    /\ isSubmitting = FALSE
    /\ formOp = NoFormOp
    /\ pending = {}
    /\ hook = NoHook
    /\ state = InitialState
    /\ isMountedRef = TRUE
    /\ runs = 0
    /\ messages = <<>>
    /\ newMessage = ""
    /\ loadCall = LoadToRun
    /\ sends = {}
    /\ conversation = <<Message(1)>>

----------------------------------------------------------------------------
(* HttpClient.request, first half: getAuthHeader, then fetch(url, options) *)

requestSent(op, q, top_k) ==
    [NoWire EXCEPT !.stage = "request", !.op = op, !.qlen = QLen(q),
                   !.top_k = top_k, !.authorized = Truthy(auth_token)]

\* a ragAPI call starts: the request goes on the wire
\* (top_k is what the caller asked for, sent what the request carries)
Send(op, caller, raw, q, top_k, sent) ==
    /\ pc' = "inflight"
    /\ call' = [op |-> op, caller |-> caller, raw |-> raw, q |-> q,
                top_k |-> top_k]
    /\ wire' = requestSent(op, q, sent)
    /\ fetches' = 1
    /\ outcome' = NoOutcome
    /\ httpResp' = NoResp
    /\ srv' = NotServed
    /\ UNCHANGED auth_token
    /\ UNCHANGED buildVars

----------------------------------------------------------------------------
(* RAGQueryExample: the screen *)

\* Input onChangeText={setQuestion}
setQuestion(q) ==
    /\ q # question
    /\ question' = q
    /\ UNCHANGED <<loading, result, error, phase, pc, call, wire, fetches,
                   outcome, httpResp, auth_token, badBefore>>
    /\ UNCHANGED backendVars
    /\ UNCHANGED buildVars
    /\ UNCHANGED outsideRag

\* an example question is pressed (the card is shown while there is no result)
loadExampleQuestion ==
    /\ result = NullBody
    /\ question' = Text(0, ExampleLen, 0)
    /\ result' = NullBody
    /\ error' = Null
    /\ phase' = IF phase = "accepted" THEN phase ELSE "none"
    /\ UNCHANGED <<loading, pc, call, wire, fetches, outcome, httpResp,
                   auth_token, badBefore>>
    /\ UNCHANGED backendVars
    /\ UNCHANGED buildVars
    /\ UNCHANGED outsideRag

\* "Ask Another Question" (shown with a result, when not loading)
askAnother ==
    /\ result # NullBody
    /\ ~loading
    /\ question' = Text(0, 0, 0)
    /\ result' = NullBody
    /\ error' = Null
    /\ phase' = "none"
    /\ UNCHANGED <<loading, pc, call, wire, fetches, outcome, httpResp,
                   auth_token, badBefore>>
    /\ UNCHANGED backendVars
    /\ UNCHANGED buildVars
    /\ UNCHANGED outsideRag

\* handleQuery up to its await: the pre-flight check, then the request.
\* It runs when the Ask button is pressed, which the button allows only
\* while buttonEnabled.
handleQuery ==
    /\ buttonEnabled(question, loading)
    /\ pc = "idle"
    /\ IF ~passesCheck(question)
       THEN /\ error' = "Please enter a question (at least 5 characters)"
            /\ phase' = "rejected"
            /\ call' = [op |-> "query", caller |-> "handleQuery",
                        raw |-> question, q |-> submitted(question),
                        top_k |-> <<HandleQueryTopK>>]
            /\ fetches' = 0
            /\ wire' = NoWire
            /\ outcome' = NoOutcome
            /\ httpResp' = NoResp
            /\ srv' = NotServed
            /\ UNCHANGED <<loading, result, pc, auth_token>>
            /\ UNCHANGED buildVars
       ELSE /\ loading' = TRUE
            /\ error' = errorOnStart(error)
            /\ result' = NullBody
            /\ phase' = "accepted"
            /\ Send("query", "handleQuery", question, submitted(question),
                    <<HandleQueryTopK>>, queryBodyTopK(<<HandleQueryTopK>>))
    /\ UNCHANGED <<question, badBefore>>
    /\ UNCHANGED <<index, generation, serviceState>>
    /\ UNCHANGED outsideRag

\* a call ended degraded or failed
endedBad(o) == o.kind = "threw" \/ Truthy(o.data.error)

\* handleQuery after its await: HttpClient.request returns, ragAPI.query
\* returns or throws, then the try / catch / finally of handleQuery
handleQuerySettles ==
    /\ pc = "settled"
    /\ call.caller = "handleQuery"
    /\ LET resp == requestReturns(wire)
           o == queryReturns(resp)
       IN /\ httpResp' = resp
          /\ outcome' = o
          /\ auth_token' = tokenAfter(wire, auth_token)
          /\ result' = IF o.kind = "returned" THEN resultOnReturn(o.data, result)
                       ELSE result
          /\ error' = errorOnSettle(o, error)
          /\ badBefore' = (badBefore \/ endedBad(o))
    /\ loading' = FALSE
    /\ phase' = "done"
    /\ pc' = "idle"
    /\ UNCHANGED <<question, call, wire, fetches>>
    /\ UNCHANGED backendVars
    /\ UNCHANGED buildVars
    /\ UNCHANGED outsideRag

----------------------------------------------------------------------------
(* Other callers of ragAPI (the integration examples): ragAPI.query,
   ragAPI.queryGet and ragAPI.getStatus called directly *)

query(q, top_k) ==
    /\ pc = "idle"
    /\ Send("query", "direct", q, q, top_k, queryBodyTopK(top_k))
    /\ UNCHANGED <<badBefore>>
    /\ UNCHANGED uiVars
    /\ UNCHANGED <<index, generation, serviceState>>
    /\ UNCHANGED outsideRag

queryGet(q, top_k) ==
    /\ pc = "idle"
    /\ Send("queryGet", "direct", q, q, top_k, queryGetParamTopK(top_k))
    /\ UNCHANGED <<badBefore>>
    /\ UNCHANGED uiVars
    /\ UNCHANGED <<index, generation, serviceState>>
    /\ UNCHANGED outsideRag

getStatus ==
    /\ pc = "idle"
    /\ Send("getStatus", "direct", Text(0, 0, 0), Text(0, 0, 0), <<>>, <<>>)
    /\ UNCHANGED <<badBefore>>
    /\ UNCHANGED uiVars
    /\ UNCHANGED <<index, generation, serviceState>>
    /\ UNCHANGED outsideRag

\* the direct call after its await: HttpClient.request returns, then the
\* ragAPI method returns the body or throws to its caller
directSettles ==
    /\ pc = "settled"
    /\ call.caller = "direct"
    /\ LET resp == requestReturns(wire)
           o == IF call.op = "getStatus" THEN getStatusReturns(resp)
                ELSE queryReturns(resp)
       IN /\ httpResp' = resp
          /\ outcome' = o
          /\ auth_token' = tokenAfter(wire, auth_token)
          /\ badBefore' = (badBefore \/ (call.op # "getStatus" /\ endedBad(o)))
    /\ pc' = "idle"
    /\ UNCHANGED <<call, wire, fetches>>
    /\ UNCHANGED uiVars
    /\ UNCHANGED backendVars
    /\ UNCHANGED buildVars
    /\ UNCHANGED outsideRag

----------------------------------------------------------------------------
(* The network and whatever stands in front of the backend *)

\* fetch rejects: the backend is unreachable, the connection drops or times
\* out at the transport (isError: the rejection is an Error object)
networkFails ==
    /\ pc = "inflight"
    /\ \E r \in {<<TRUE, "Network request failed">>, <<TRUE, "">>, <<FALSE, "">>} :
           wire' = [wire EXCEPT !.stage = "reject", !.from = "network",
                                !.isError = r[1], !.message = r[2]]
    /\ pc' = "settled"
    /\ UNCHANGED <<call, fetches, outcome, httpResp, auth_token, badBefore>>
    /\ UNCHANGED uiVars
    /\ UNCHANGED backendVars
    /\ UNCHANGED buildVars
    /\ UNCHANGED outsideRag

GatewayStatuses == {200, 401, 502}

GatewayBodies == {NullBody, StringBody(""), EmptyObject, DetailBody("upstream failed")}

\* a proxy or a failing server answers instead of the Query Service: any
\* status, with an empty, unparsable or unexpected body
gatewayAnswers ==
    /\ pc = "inflight"
    /\ \E st \in GatewayStatuses, b \in GatewayBodies :
           wire' = [wire EXCEPT !.stage = "response", !.from = "gateway",
                                !.status = st, !.body = b,
                                !.jsonOk = (b # NullBody)]
    /\ pc' = "settled"
    /\ UNCHANGED <<call, fetches, outcome, httpResp, auth_token, badBefore>>
    /\ UNCHANGED uiVars
    /\ UNCHANGED backendVars
    /\ UNCHANGED buildVars
    /\ UNCHANGED outsideRag

----------------------------------------------------------------------------
(* Backend operations, modelled from the specification *)

\* POST /rag/query and GET /rag/query: the Query Service answers
serveQuery ==
    /\ pc = "inflight"
    /\ wire.op \in {"query", "queryGet"}
    /\ \E emb \in {"ok", "down"}, script \in LlmScripts, inBody \in BOOLEAN :
         LET a == answer(wire.qlen, wire.top_k, index, emb, script)
         IN /\ srv' = a
            /\ serviceState' = stateAfter(a, serviceState)
            /\ wire' = [wire EXCEPT
                          !.stage = "response", !.from = "backend",
                          !.status = answerStatus(a, inBody),
                          !.body = IF answerStatus(a, inBody) = 200
                                   THEN answerBody(a)
                                   ELSE DetailBody(a.error)]
    /\ pc' = "settled"
    /\ UNCHANGED <<index, generation>>
    /\ UNCHANGED buildVars
    /\ UNCHANGED <<call, fetches, outcome, httpResp, auth_token, badBefore>>
    /\ UNCHANGED uiVars
    /\ UNCHANGED outsideRag

\* GET /rag/status
serveStatus ==
    /\ pc = "inflight"
    /\ wire.op = "getStatus"
    /\ wire' = [wire EXCEPT !.stage = "response", !.from = "backend",
                            !.status = 200, !.body = status(index)]
    /\ pc' = "settled"
    /\ UNCHANGED backendVars
    /\ UNCHANGED buildVars
    /\ UNCHANGED <<call, fetches, outcome, httpResp, auth_token, badBefore>>
    /\ UNCHANGED uiVars
    /\ UNCHANGED outsideRag

\* the sizes of the corpora ingested
CorpusSizes == {0, MaxChunks}

\* ingestion builds generation generation + 1 and swaps it in
rebuild(n) ==
    /\ generation < MaxGen
    /\ generation' = generation + 1
    /\ index' = BuildIndex(generation + 1, n)
    /\ built' = (generation + 1 :> n) @@ built
    /\ UNCHANGED <<serviceState, srv, staging, target, retr>>
    /\ UNCHANGED clientVars
    /\ UNCHANGED uiVars
    /\ UNCHANGED outsideRag

----------------------------------------------------------------------------
(* Specifications *)

Environment ==
    \/ networkFails
    \/ gatewayAnswers
    \/ serveQuery
    \/ \E n \in CorpusSizes : rebuild(n)

\* the RAGQueryExample screen against the backend
Next ==
    \/ \E q \in Questions : setQuestion(q)
    \/ loadExampleQuestion
    \/ askAnother
    \/ handleQuery
    \/ handleQuerySettles
    \/ Environment

Spec == Init /\ [][Next]_vars

\* the same, with the scheduling the JavaScript runtime guarantees: once fetch
\* has settled, the continuation of handleQuery runs.  Nothing obliges the
\* network or the backend to answer.
SpecLive == Init /\ [][Next]_vars /\ WF_vars(handleQuerySettles)

\* direct callers of ragAPI against the backend
NextApi ==
    \/ \E q \in DirectQuestions, k \in TopKs : query(q, k)
    \/ \E q \in DirectQuestions, k \in TopKs : queryGet(q, k)
    \/ getStatus
    \/ directSettles
    \/ serveStatus
    \/ Environment

SpecApi == Init /\ [][NextApi]_vars

----------------------------------------------------------------------------
(* Backend: a rebuild running beside in-flight queries, step by step,
   modelled from the specification *)

\* ingestion starts writing generation generation + 1, of n chunks
beginRebuild(n) ==
    /\ target = <<>>
    /\ generation < MaxGen
    /\ target' = <<n>>
    /\ staging' = <<>>
    /\ UNCHANGED <<built, retr>>
    /\ UNCHANGED <<backendVars, clientVars, uiVars>>
    /\ UNCHANGED outsideRag

\* ingestion writes the next chunk's entry into the generation it is building
ingestChunk ==
    /\ target # <<>>
    /\ Len(staging) < target[1]
    /\ staging' = staging \o SubSeq(BuildIndex(generation + 1, target[1]),
                                    Len(staging) + 1, Len(staging) + 1)
    /\ UNCHANGED <<target, built, retr>>
    /\ UNCHANGED <<backendVars, clientVars, uiVars>>
    /\ UNCHANGED outsideRag

\* the generation is complete: the active reference is swapped to it
swapIndex ==
    /\ target # <<>>
    /\ Len(staging) = target[1]
    /\ index' = staging
    /\ generation' = generation + 1
    /\ built' = (generation + 1 :> target[1]) @@ built
    /\ target' = <<>>
    /\ staging' = <<>>
    /\ UNCHANGED <<serviceState, srv, retr>>
    /\ UNCHANGED <<clientVars, uiVars>>
    /\ UNCHANGED outsideRag

\* (variant: every read goes through the reference active at that moment)
readFromLive(ref, live) == live

\* the index a retrieval step reads: the reference the query took when its
\* retrieval began (ref), not the reference that is active now (live)
readFrom(ref, live) == ref

\* a query (ready service, populated index) begins its retrieval step and
\* takes the active reference
beginRetrieval(i) ==
    /\ retr[i].st # "reading"
    /\ Len(index) > 0
    /\ retr' = [retr EXCEPT ![i] = [st |-> "reading", gen |-> generation,
                                    ref |-> index, seen |-> <<>>]]
    /\ UNCHANGED <<staging, target, built>>
    /\ UNCHANGED <<backendVars, clientVars, uiVars>>
    /\ UNCHANGED outsideRag

\* the retrieval reads the next entry, or finds none left and ends
readEntry(i) ==
    /\ retr[i].st = "reading"
    /\ LET from == readFrom(retr[i].ref, index)
           n == Len(retr[i].seen)
       IN retr' = [retr EXCEPT ![i] =
                     IF n < Len(from)
                     THEN [@ EXCEPT !.seen = Append(@, from[n + 1])]
                     ELSE [@ EXCEPT !.st = "done"]]
    /\ UNCHANGED <<staging, target, built>>
    /\ UNCHANGED <<backendVars, clientVars, uiVars>>
    /\ UNCHANGED outsideRag

NextIndex ==
    \/ \E n \in CorpusSizes : beginRebuild(n)
    \/ ingestChunk
    \/ swapIndex
    \/ \E i \in 1..MaxQueries : beginRetrieval(i)
    \/ \E i \in 1..MaxQueries : readEntry(i)

SpecIndex == Init /\ [][NextIndex]_vars

----------------------------------------------------------------------------
(* Chunker and the rejoining of its chunks, modelled from the specification *)

Alphabet == {"a", "b"}

\* normalized document texts, as character sequences
Documents == UNION {[1..n -> Alphabet] : n \in 0..MaxDocLen}

\* <<chunk_size, chunk_overlap>> as configured, valid or not
ChunkConfigs == {<<sz, ov>> : sz \in 1..MaxChunkSize, ov \in 0..MaxChunkSize}

\* (variant: consecutive chunks start a whole chunk apart)
chunkStepWhole(size, overlap) == size

\* distance between the starts of consecutive chunks
chunkStep(size, overlap) == size - overlap

RECURSIVE chunkFrom(_, _, _, _)
\* the chunks from offset start on: chunk_size characters each, the final one
\* whatever is left
chunkFrom(text, start, size, overlap) ==
    IF start + size >= Len(text)
    THEN <<SubSeq(text, start + 1, Len(text))>>
    ELSE <<SubSeq(text, start + 1, start + size)>>
             \o chunkFrom(text, start + chunkStep(size, overlap), size, overlap)

\* Chunker: the ordered chunk list covering the whole document
chunk(text, size, overlap) ==
    IF text = <<>> THEN <<>> ELSE chunkFrom(text, 0, size, overlap)

\* a chunk after the first, with the overlap removed
withoutOverlap(c, overlap) == SubSeq(c, overlap + 1, Len(c))

RECURSIVE joinRest(_, _)
joinRest(cs, overlap) ==
    IF cs = <<>> THEN <<>>
    ELSE withoutOverlap(Head(cs), overlap) \o joinRest(Tail(cs), overlap)

\* the chunks concatenated in order, the overlap removed from each chunk
\* after the first
rejoin(cs, overlap) ==
    IF cs = <<>> THEN <<>> ELSE Head(cs) \o joinRest(Tail(cs), overlap)

\* ingestion takes a document and the configuration; chunk_overlap >=
\* chunk_size is a ConfigError, detected before anything else is done
loadDocument(d, size, overlap) ==
    /\ chunker = "idle"
    /\ document' = d
    /\ chunk_size' = size
    /\ chunk_overlap' = overlap
    /\ chunks' = <<>>
    /\ rejoined' = <<>>
    /\ chunker' = IF overlap >= size THEN "ConfigError" ELSE "loaded"
    /\ UNCHANGED outsideChunker

\* the Chunker runs
chunkDocument ==
    /\ chunker = "loaded"
    /\ chunks' = chunk(document, chunk_size, chunk_overlap)
    /\ chunker' = "chunked"
    /\ UNCHANGED <<document, chunk_size, chunk_overlap, rejoined>>
    /\ UNCHANGED outsideChunker

\* the chunk list is joined back into a text
rejoinChunks ==
    /\ chunker = "chunked"
    /\ rejoined' = rejoin(chunks, chunk_overlap)
    /\ chunker' = "rejoined"
    /\ UNCHANGED <<document, chunk_size, chunk_overlap, chunks>>
    /\ UNCHANGED outsideChunker

\* the ingestion run is over: the next run starts from nothing
ingestionEnds ==
    /\ chunker \in {"rejoined", "ConfigError"}
    /\ document' = <<>>
    /\ chunk_size' = 1
    /\ chunk_overlap' = 0
    /\ chunks' = <<>>
    /\ rejoined' = <<>>
    /\ chunker' = "idle"
    /\ UNCHANGED outsideChunker

NextChunker ==
    \/ \E d \in Documents, c \in ChunkConfigs : loadDocument(d, c[1], c[2])
    \/ chunkDocument
    \/ rejoinChunks
    \/ ingestionEnds

SpecChunker == Init /\ [][NextChunker]_vars

----------------------------------------------------------------------------
(* The app: AuthProvider, the auth API, the screens and their redirects *)

\* the HttpClient and the RAG backend, as the app's actions leave them
clientIdle == <<pc, call, wire, fetches, outcome, httpResp, srv>>

\* isAuthenticated: !!user && !!token
isAuthenticated(u, t) == u # NoUser /\ Truthy(t)

\* the protected screens: the client tabs and the consultant tabs
HomeScreens == {"tabs", "consultant-tabs"}

\* the login and signup screens of both roles
AuthScreens == {"login", "signup", "consultant-login", "consultant-signup"}

\* navigateToHome(role): the home screen of a role
navigateToHome(role) == IF role = "consultant" THEN "consultant-tabs" ELSE "tabs"

\* a redirect made by a screen or a service, with the auth state it saw
Redirect(by, to) ==
    [by |-> by, to |-> to, user |-> user,
     authed |-> isAuthenticated(user, token)]

\* no AuthProvider operation, timer or request is under way
appQuiet ==
    /\ authOp.stage \in {"done", "failed"}
    /\ timer = "none"
    /\ pc = "idle"

\* the app is killed and launched again: memory is fresh, secure storage stays
restart ==
    /\ appQuiet
    /\ route' = "index"
    /\ user' = NoUser
    /\ token' = Null
    /\ isLoading' = TRUE
    /\ authError' = Null
    /\ authOp' = InitializeAuth
    /\ timer' = "none"
    /\ nav' = NoNav
    /\ UNCHANGED <<auth_user, auth_token, lastLogin>>
    /\ UNCHANGED clientIdle
    /\ UNCHANGED ragIdle
    /\ UNCHANGED outsideApp

\* (variant: the stored user is not read back)
restoreUserSkipped(stored) == NoUser

\* initializeAuth: if (storedUser) setUser(JSON.parse(storedUser))
restoreUser(stored) == parse(stored)

\* AuthProvider.initializeAuth, run once on mount
initializeAuth ==
    /\ authOp = InitializeAuth
    /\ token' = IF Truthy(auth_token) THEN auth_token ELSE token
    /\ user' = IF Truthy(auth_token) /\ auth_user # <<>>
               THEN restoreUser(auth_user) ELSE user
    /\ isLoading' = FALSE
    /\ authOp' = [authOp EXCEPT !.stage = "done"]
    /\ UNCHANGED <<route, authError, auth_user, auth_token, timer, nav, lastLogin>>
    /\ UNCHANGED clientIdle
    /\ UNCHANGED ragIdle
    /\ UNCHANGED outsideApp

\* where the entry screen redirects to
indexRedirect(u, t) ==
    IF isAuthenticated(u, t)
    THEN IF u.role = "consultant" THEN "consultant-tabs" ELSE "tabs"
    ELSE IF Truthy(t) THEN "tabs"
    ELSE "login"

\* app/index.tsx: the entry screen renders a Redirect once auth has loaded
Index ==
    /\ route = "index"
    /\ ~isLoading
    /\ route' = indexRedirect(user, token)
    /\ nav' = Redirect("Index", indexRedirect(user, token))
    /\ UNCHANGED <<user, token, isLoading, authError, auth_user, auth_token,
                   authOp, timer, lastLogin>>
    /\ UNCHANGED clientIdle
    /\ UNCHANGED ragIdle
    /\ UNCHANGED outsideApp

\* where the not-found screen redirects to
notFoundRedirect(u, t) == IF isAuthenticated(u, t) THEN "tabs" ELSE "login"

\* a link to a route that no screen matches is opened
openUnmatchedRoute ==
    /\ appQuiet
    /\ route # "notfound"
    /\ route' = "notfound"
    /\ UNCHANGED <<user, token, isLoading, authError, auth_user, auth_token,
                   authOp, timer, nav, lastLogin>>
    /\ UNCHANGED clientIdle
    /\ UNCHANGED ragIdle
    /\ UNCHANGED outsideApp

\* +not-found: NotFound renders a Redirect once auth has loaded
NotFound ==
    /\ route = "notfound"
    /\ ~isLoading
    /\ route' = notFoundRedirect(user, token)
    /\ nav' = Redirect("NotFound", notFoundRedirect(user, token))
    /\ UNCHANGED <<user, token, isLoading, authError, auth_user, auth_token,
                   authOp, timer, lastLogin>>
    /\ UNCHANGED clientIdle
    /\ UNCHANGED ragIdle
    /\ UNCHANGED outsideApp

\* navigateToLogin(role), navigateToSignup(role): the links between the
\* login and signup screens
navigateToAuthScreen(to) ==
    /\ appQuiet
    /\ route \in AuthScreens
    /\ to # route
    /\ route' = to
    /\ UNCHANGED <<user, token, isLoading, authError, auth_user, auth_token,
                   authOp, timer, nav, lastLogin>>
    /\ UNCHANGED clientIdle
    /\ UNCHANGED ragIdle
    /\ UNCHANGED outsideApp

\* (auth)/login.tsx handleLogin with a form that validates: a timer is set
handleLogin ==
    /\ route = "login"
    /\ appQuiet
    /\ timer' = "handleLogin"
    /\ UNCHANGED <<route, user, token, isLoading, authError, auth_user,
                   auth_token, authOp, nav, lastLogin>>
    /\ UNCHANGED clientIdle
    /\ UNCHANGED ragIdle
    /\ UNCHANGED outsideApp

\* (auth)/signup.tsx handleSignup with a form that validates: a consultant is
\* pushed to the consultant signup screen, for a client a timer is set
handleSignup(role) ==
    /\ route = "signup"
    /\ appQuiet
    /\ IF role = "consultant"
       THEN /\ route' = "consultant-signup"
            /\ UNCHANGED timer
       ELSE /\ timer' = "handleSignup"
            /\ UNCHANGED route
    /\ UNCHANGED <<user, token, isLoading, authError, auth_user, auth_token,
                   authOp, nav, lastLogin>>
    /\ UNCHANGED clientIdle
    /\ UNCHANGED ragIdle
    /\ UNCHANGED outsideApp

\* the setTimeout callback of handleLogin and handleSignup:
\*   setLoading(false); router.replace('/(tabs)')
timerFires ==
    /\ timer # "none"
    /\ timer' = "none"
    /\ route' = "tabs"
    /\ nav' = Redirect(timer, "tabs")
    /\ UNCHANGED <<user, token, isLoading, authError, auth_user, auth_token,
                   authOp, lastLogin>>
    /\ UNCHANGED clientIdle
    /\ UNCHANGED ragIdle
    /\ UNCHANGED outsideApp

\* the message authAPI throws when the POST of a stage fails without one
authFallback(name, stage) ==
    IF stage = "login" THEN "Login failed"
    ELSE IF name = "signupConsultant" THEN "Consultant signup failed"
    ELSE "Signup failed"

\* the message the AuthProvider sets when the error carries none
providerFallback(name) ==
    IF name = "signupConsultant" THEN "Consultant signup failed"
    ELSE "Login failed"

\* an AuthProvider operation starts: setIsLoading(true), setError(null),
\* then the authAPI method sends its first POST through the HttpClient
authStarts(name, screen, op) ==
    /\ isLoading' = TRUE
    /\ authError' = Null
    /\ authOp' = [name |-> name, stage |-> op, screen |-> screen, fresh |-> Null]
    /\ Send(op, "auth", Text(0, 0, 0), Text(0, 0, 0), <<>>, <<>>)
    /\ UNCHANGED <<route, user, token, auth_user, timer, nav, lastLogin>>
    /\ UNCHANGED uiVars
    /\ UNCHANGED <<index, generation, serviceState, badBefore>>
    /\ UNCHANGED outsideApp

\* ConsultantLoginScreen, onSubmit of a form that validates:
\* auth.loginConsultant(email, password), which is authAPI.login
loginConsultant ==
    /\ route = "consultant-login"
    /\ appQuiet
    /\ authStarts("loginConsultant", "consultant-login", "login")

\* ConsultantSignupScreen, onSubmit of a form that validates:
\* auth.signupConsultant(data): POST /auth/signup, then authAPI.login
signupConsultant ==
    /\ route = "consultant-signup"
    /\ appQuiet
    /\ authStarts("signupConsultant", "consultant-signup", "signup")

\* the auth backend answers a POST: /auth/signup creates the account or
\* refuses it, /auth/login issues { access_token } or refuses the credentials
authServerAnswers ==
    /\ pc = "inflight"
    /\ call.caller = "auth"
    /\ \E r \in {<<200, [EmptyObject EXCEPT !.access_token = t]>> : t \in Tokens}
                    \cup {<<401, DetailBody("Incorrect email or password")>>} :
           wire' = [wire EXCEPT !.stage = "response", !.from = "backend",
                                !.status = IF call.op = "signup" /\ r[1] = 401
                                           THEN 400 ELSE r[1],
                                !.body = IF call.op = "signup" /\ r[1] = 200
                                         THEN EmptyObject ELSE r[2]]
    /\ pc' = "settled"
    /\ UNCHANGED <<call, fetches, outcome, httpResp, srv, auth_token>>
    /\ UNCHANGED ragIdle
    /\ UNCHANGED outsideApp
    /\ UNCHANGED appVars

\* the catch and finally of an AuthProvider operation:
\*   setError(err.message || fallback); throw err; setIsLoading(false)
\* (the screen's onSubmit catches the error and logs it)
authFails(message) ==
    /\ authError' = OrElse(message, providerFallback(authOp.name))
    /\ isLoading' = FALSE
    /\ authOp' = [authOp EXCEPT !.stage = "failed"]
    /\ UNCHANGED <<route, user, token, auth_user, timer, nav, lastLogin>>

\* the authAPI method after the await of a POST: HttpClient.request returns,
\* then a failure is thrown, a signup goes on to log in, and a login goes on
\* to fetch the profile with the token it was issued
authPostSettles ==
    /\ pc = "settled"
    /\ call.caller = "auth"
    /\ LET resp == requestReturns(wire)
           o == unwrap(resp, authFallback(authOp.name, authOp.stage))
       IN IF o.kind = "threw"
          THEN /\ authFails(o.message)
               /\ httpResp' = resp
               /\ outcome' = o
               /\ auth_token' = tokenAfter(wire, auth_token)
               /\ pc' = "idle"
               /\ UNCHANGED <<call, wire, fetches, srv>>
          ELSE IF authOp.stage = "signup"
          THEN /\ authOp' = [authOp EXCEPT !.stage = "login"]
               /\ Send("login", "auth", Text(0, 0, 0), Text(0, 0, 0), <<>>, <<>>)
               /\ UNCHANGED <<route, user, token, isLoading, authError,
                              auth_user, timer, nav, lastLogin>>
          ELSE /\ authOp' = [authOp EXCEPT !.stage = "profile",
                                           !.fresh = o.data.access_token]
               /\ httpResp' = resp
               /\ outcome' = o
               /\ auth_token' = tokenAfter(wire, auth_token)
               /\ pc' = "idle"
               /\ UNCHANGED <<call, wire, fetches, srv>>
               /\ UNCHANGED <<route, user, token, isLoading, authError,
                              auth_user, timer, nav, lastLogin>>
    /\ UNCHANGED ragIdle
    /\ UNCHANGED outsideApp

\* the screen a successful operation replaces the route with
homeAfter(screen) == "consultant-tabs"

\* AuthProvider login: SecureStore.setItemAsync('auth_user', JSON.stringify(user))
storedUserAfter(u, stored) == stringify(u)

\* authAPI.login fetches GET /auth/me with the fresh token (a fetch of its
\* own, outside the HttpClient). Answered with a user, the AuthProvider stores
\* the token and the user and the screen replaces the route; answered with an
\* error status or not at all (ok = FALSE), the operation fails.
profileSettles(ok, u) ==
    /\ authOp.stage = "profile"
    /\ IF ok
       THEN /\ Truthy(authOp.fresh)
            /\ auth_token' = authOp.fresh
            /\ token' = authOp.fresh
            /\ user' = u
            /\ auth_user' = storedUserAfter(u, auth_user)
            /\ lastLogin' = [token |-> authOp.fresh, user |-> u]
            /\ isLoading' = FALSE
            /\ authOp' = [authOp EXCEPT !.stage = "done"]
            /\ route' = homeAfter(authOp.screen)
            /\ nav' = [by |-> authOp.name, to |-> homeAfter(authOp.screen),
                       user |-> u, authed |-> TRUE]
            /\ UNCHANGED <<authError, timer>>
       ELSE /\ authFails("Failed to fetch profile")
            /\ UNCHANGED auth_token
    /\ UNCHANGED clientIdle
    /\ UNCHANGED ragIdle
    /\ UNCHANGED outsideApp

\* AuthProvider.logout: authAPI.logout() does nothing, both keys are deleted
\* and the state is cleared; it does not navigate
logout ==
    /\ route \in HomeScreens
    /\ appQuiet
    /\ auth_token' = Null
    /\ auth_user' = <<>>
    /\ token' = Null
    /\ user' = NoUser
    /\ authError' = Null
    /\ isLoading' = FALSE
    /\ authOp' = [NoAuthOp EXCEPT !.name = "logout", !.stage = "done"]
    /\ UNCHANGED <<route, timer, nav, lastLogin>>
    /\ UNCHANGED clientIdle
    /\ UNCHANGED ragIdle
    /\ UNCHANGED outsideApp

\* services/navigation handleLogout, called once AuthProvider.logout has
\* cleared the token ("Token is already cleared by AuthContext"):
\* router.replace(ROUTES.AUTH.LOGIN)
handleLogout ==
    /\ route \in HomeScreens
    /\ authOp.name = "logout"
    /\ appQuiet
    /\ route' = "login"
    /\ nav' = Redirect("handleLogout", "login")
    /\ authOp' = [NoAuthOp EXCEPT !.name = "handleLogout", !.stage = "done"]
    /\ UNCHANGED <<user, token, isLoading, authError, auth_user, auth_token,
                   timer, lastLogin>>
    /\ UNCHANGED clientIdle
    /\ UNCHANGED ragIdle
    /\ UNCHANGED outsideApp

\* the Logout button of the consultant's profile screen:
\*   onPress={() => router.replace('/(auth)/signup')}
LogoutButton ==
    /\ route = "consultant-tabs"
    /\ appQuiet
    /\ route' = "signup"
    /\ nav' = Redirect("LogoutButton", "signup")
    /\ authOp' = [NoAuthOp EXCEPT !.name = "LogoutButton", !.stage = "done"]
    /\ UNCHANGED <<user, token, isLoading, authError, auth_user, auth_token,
                   timer, lastLogin>>
    /\ UNCHANGED clientIdle
    /\ UNCHANGED ragIdle
    /\ UNCHANGED outsideApp

NextAuth ==
    \/ restart
    \/ initializeAuth
    \/ Index
    \/ openUnmatchedRoute
    \/ NotFound
    \/ \E to \in AuthScreens : navigateToAuthScreen(to)
    \/ handleLogin
    \/ \E role \in {"client", "consultant"} : handleSignup(role)
    \/ timerFires
    \/ loginConsultant
    \/ signupConsultant
    \/ authServerAnswers
    \/ authPostSettles
    \/ \E ok \in BOOLEAN, u \in Users : profileSettles(ok, u)
    \/ logout
    \/ handleLogout
    \/ LogoutButton
    \/ getStatus
    \/ directSettles
    \/ serveStatus
    \/ networkFails
    \/ gatewayAnswers

\* the app with its auth backend, and the HttpClient's other requests
SpecAuth == Init /\ [][NextAuth]_vars

----------------------------------------------------------------------------
(* The entry screen as app/index.tsx defines it the second time *)

\* where the entry screen redirects to; "none": it renders null
\* ("If we have a token but no user yet, wait for user to be loaded")
indexRedirectOrWait(u, t) ==
    IF isAuthenticated(u, t)
    THEN IF u.role = "consultant" THEN "consultant-tabs" ELSE "tabs"
    ELSE IF Truthy(t) /\ u = NoUser THEN "none"
    ELSE "login"

\* app/index.tsx, second definition of Index: renders a Redirect once auth
\* has loaded, unless a token is set without a user
IndexOrWait ==
    /\ route = "index"
    /\ ~isLoading
    /\ indexRedirectOrWait(user, token) # "none"
    /\ route' = indexRedirectOrWait(user, token)
    /\ nav' = Redirect("Index", indexRedirectOrWait(user, token))
    /\ UNCHANGED <<user, token, isLoading, authError, auth_user, auth_token,
                   authOp, timer, lastLogin>>
    /\ UNCHANGED clientIdle
    /\ UNCHANGED ragIdle
    /\ UNCHANGED outsideApp

\* the app is killed inside AuthProvider login, between
\*   await SecureStore.setItemAsync('auth_token', response.access_token)
\* and the write of 'auth_user', and is launched again
killedWhileStoring ==
    /\ authOp.stage = "profile"
    /\ Truthy(authOp.fresh)
    /\ auth_token' = authOp.fresh
    /\ route' = "index"
    /\ user' = NoUser
    /\ token' = Null
    /\ isLoading' = TRUE
    /\ authError' = Null
    /\ authOp' = InitializeAuth
    /\ timer' = "none"
    /\ nav' = NoNav
    /\ UNCHANGED <<auth_user, lastLogin>>
    /\ UNCHANGED clientIdle
    /\ UNCHANGED ragIdle
    /\ UNCHANGED outsideApp

NextEntry ==
    \/ restart
    \/ initializeAuth
    \/ IndexOrWait
    \/ \E to \in AuthScreens : navigateToAuthScreen(to)
    \/ loginConsultant
    \/ authServerAnswers
    \/ networkFails
    \/ authPostSettles
    \/ \E ok \in BOOLEAN, u \in Users : profileSettles(ok, u)
    \/ killedWhileStoring
    \/ logout
    \/ handleLogout
    \/ LogoutButton

\* the app from launch to its first screen: auth initialization ends, and the
\* entry screen, rendered again on every change of the auth state, redirects
\* when it has a redirect to render
SpecEntry ==
    /\ Init
    /\ [][NextEntry]_vars
    /\ WF_vars(initializeAuth)
    /\ SF_vars(IndexOrWait)

----------------------------------------------------------------------------
(* AuthProvider operations called while another is still awaited *)

\* how many calls may be awaited at once
MaxOps == 2

\* the operations of the context that await something
Operations == {"login", "logout", "updateProfile"}

\* an operation is called by a consumer of the context (consumers are
\* mounted once the initialization has ended): setIsLoading(true), and login
\* also setError(null); then it awaits the auth API
operationStarts(name) ==
    /\ authOp # InitializeAuth
    /\ Cardinality(pending) < MaxOps
    /\ LET id == CHOOSE i \in 1..MaxOps : \A op \in pending : op.id # i
       IN pending' = pending \cup {[id |-> id, name |-> name]}
    /\ isLoading' = TRUE
    /\ authError' = IF name = "login" THEN Null ELSE authError
    /\ UNCHANGED <<route, user, token, auth_user, auth_token, authOp, timer,
                   nav, lastLogin>>
    /\ UNCHANGED clientIdle
    /\ UNCHANGED ragIdle
    /\ UNCHANGED outsideCalls

\* AuthProvider.login after the await of authAPI.login: the token and the
\* user are stored and set, or the error is set and rethrown;
\* finally setIsLoading(false)
loginReturns(id, ok, t, u) ==
    /\ [id |-> id, name |-> "login"] \in pending
    /\ pending' = pending \ {[id |-> id, name |-> "login"]}
    /\ IF ok
       THEN /\ auth_token' = t
            /\ token' = t
            /\ user' = u
            /\ auth_user' = stringify(u)
            /\ lastLogin' = [token |-> t, user |-> u]
            /\ UNCHANGED authError
       ELSE /\ authError' = "Login failed"
            /\ UNCHANGED <<auth_token, token, user, auth_user, lastLogin>>
    /\ isLoading' = FALSE
    /\ UNCHANGED <<route, authOp, timer, nav>>
    /\ UNCHANGED clientIdle
    /\ UNCHANGED ragIdle
    /\ UNCHANGED outsideCalls

\* AuthProvider.logout after the await of authAPI.logout: both keys are
\* deleted, the state is cleared; finally setIsLoading(false)
logoutReturns(id) ==
    /\ [id |-> id, name |-> "logout"] \in pending
    /\ pending' = pending \ {[id |-> id, name |-> "logout"]}
    /\ auth_token' = Null
    /\ auth_user' = <<>>
    /\ token' = Null
    /\ user' = NoUser
    /\ authError' = Null
    /\ isLoading' = FALSE
    /\ UNCHANGED <<route, authOp, timer, nav, lastLogin>>
    /\ UNCHANGED clientIdle
    /\ UNCHANGED ragIdle
    /\ UNCHANGED outsideCalls

\* AuthProvider.updateProfile after the await of authAPI.updateProfile: the
\* updated user is set and stored, or the error passes through (there is no
\* catch); finally setIsLoading(false)
updateProfileReturns(id, ok, u) ==
    /\ [id |-> id, name |-> "updateProfile"] \in pending
    /\ pending' = pending \ {[id |-> id, name |-> "updateProfile"]}
    /\ IF ok
       THEN /\ user' = u
            /\ auth_user' = stringify(u)
       ELSE UNCHANGED <<user, auth_user>>
    /\ isLoading' = FALSE
    /\ UNCHANGED <<route, token, auth_token, authError, authOp, timer, nav,
                   lastLogin>>
    /\ UNCHANGED clientIdle
    /\ UNCHANGED ragIdle
    /\ UNCHANGED outsideCalls

\* at least one auth operation is awaited: the initialization of the mount
\* or a call
inFlight == authOp = InitializeAuth \/ pending # {}

NextCalls ==
    \/ initializeAuth
    \/ \E name \in Operations : operationStarts(name)
    \/ \E id \in 1..MaxOps, ok \in BOOLEAN, t \in Tokens, u \in Users :
           loginReturns(id, ok, t, u)
    \/ \E id \in 1..MaxOps : logoutReturns(id)
    \/ \E id \in 1..MaxOps, ok \in BOOLEAN, u \in Users :
           updateProfileReturns(id, ok, u)

\* the AuthProvider with calls that may overlap
SpecCalls == Init /\ [][NextCalls]_vars

----------------------------------------------------------------------------
(* useAsync (hooks/useAsync) *)

\* how many executions may be awaited at once
MaxRuns == 3

\* the values of the dependency list
MaxDeps == 2

\* what asyncFunction() resolves with
Responses == {"data-1", "data-2"}

\* execute(), up to its await:
\*   setState({ data: null, loading: true, error: null })
executed == [data |-> Null, loading |-> TRUE, error |-> Null]

\* the effect body: if (immediate) execute()
effectRuns(immediate) ==
    IF immediate /\ runs < MaxRuns
    THEN /\ state' = executed
         /\ runs' = runs + 1
    ELSE UNCHANGED <<state, runs>>

\* a component mounts and calls useAsync(asyncFunction, immediate, deps):
\* the state and the ref are created and the effect runs
useAsync(immediate) ==
    /\ ~hook.mounted
    /\ runs = 0
    /\ hook' = [mounted |-> TRUE, immediate |-> immediate, deps |-> 0]
    /\ isMountedRef' = TRUE
    /\ IF immediate
       THEN /\ state' = executed
            /\ runs' = 1
       ELSE /\ state' = InitialState
            /\ UNCHANGED runs
    /\ UNCHANGED outsideAsync

\* the dependency list changes while the component stays mounted: the
\* cleanup of the effect runs (isMountedRef.current = false), then the effect
\* runs again
depsChange ==
    /\ hook.mounted
    /\ hook.deps < MaxDeps
    /\ hook' = [hook EXCEPT !.deps = hook.deps + 1]
    /\ isMountedRef' = FALSE
    /\ effectRuns(hook.immediate)
    /\ UNCHANGED outsideAsync

\* the component calls execute() itself (a retry or refresh)
execute ==
    /\ hook.mounted
    /\ runs < MaxRuns
    /\ state' = executed
    /\ runs' = runs + 1
    /\ UNCHANGED <<hook, isMountedRef>>
    /\ UNCHANGED outsideAsync

\* execute() after its await: if (isMountedRef.current) setState(...)
writesResult(ref) == ref

\* asyncFunction() settles for one execution: resolved with a response or
\* rejected (ok = FALSE)
executionSettles(ok, response) ==
    /\ runs > 0
    /\ runs' = runs - 1
    /\ state' = IF ~writesResult(isMountedRef) THEN state
                ELSE IF ok
                THEN [data |-> response, loading |-> FALSE, error |-> Null]
                ELSE [data |-> Null, loading |-> FALSE, error |-> "Error"]
    /\ UNCHANGED <<hook, isMountedRef>>
    /\ UNCHANGED outsideAsync

\* the component unmounts: the cleanup of the effect runs
unmount ==
    /\ hook.mounted
    /\ hook' = [hook EXCEPT !.mounted = FALSE]
    /\ isMountedRef' = FALSE
    /\ UNCHANGED <<state, runs>>
    /\ UNCHANGED outsideAsync

NextAsync ==
    \/ \E immediate \in BOOLEAN : useAsync(immediate)
    \/ depsChange
    \/ execute
    \/ \E ok \in BOOLEAN, response \in Responses : executionSettles(ok, response)
    \/ unmount

\* a component using useAsync on its own
SpecAsync == Init /\ [][NextAsync]_vars

----------------------------------------------------------------------------
(* ConversationScreen (app/messages/[clientName]) and the messages backend *)

\* how many messages the conversation may hold
MaxMessages == 4

\* how many sendMessage calls may await the API at once
MaxSends == 2

\* onChangeText={setNewMessage}: the user types a message
setNewMessage ==
    /\ newMessage = ""
    /\ newMessage' = "hello"
    /\ UNCHANGED <<messages, loadCall, sends, conversation>>
    /\ UNCHANGED outsideChat

\* load(), up to its await: messagesAPI.getConversation(otherUserId) is sent
load ==
    /\ loadCall.stage = "start"
    /\ loadCall' = [loadCall EXCEPT !.stage = "request"]
    /\ UNCHANGED <<messages, newMessage, sends, conversation>>
    /\ UNCHANGED outsideChat

\* the backend answers getConversation with the history, oldest first
getConversation ==
    /\ loadCall.stage = "request"
    /\ loadCall' = [stage |-> "response", data |-> conversation]
    /\ UNCHANGED <<messages, newMessage, sends, conversation>>
    /\ UNCHANGED outsideChat

\* load() after its await: setMessages(mapped), the response in its order
loadSettles ==
    /\ loadCall.stage = "response"
    /\ messages' = loadCall.data
    /\ loadCall' = [loadCall EXCEPT !.stage = "done"]
    /\ UNCHANGED <<newMessage, sends, conversation>>
    /\ UNCHANGED outsideChat

\* sendMessage(), up to its await: with a message typed (the send button is
\* disabled only while the text is empty), messagesAPI.sendMessage is sent
sendMessage ==
    /\ Truthy(newMessage)
    /\ Cardinality(sends) < MaxSends
    /\ LET n == CHOOSE k \in 1..MaxSends : \A c \in sends : c.n # k
       IN sends' = sends \cup {[n |-> n, stage |-> "request", created |-> Message(0)]}
    /\ UNCHANGED <<messages, newMessage, loadCall, conversation>>
    /\ UNCHANGED outsideChat

\* the backend receives a send: it creates the message, stamped with the
\* time of creation, and answers with it
createMessage(n) ==
    /\ Len(conversation) < MaxMessages
    /\ \E c \in sends :
           /\ c.n = n
           /\ c.stage = "request"
           /\ conversation' = Append(conversation, Message(Len(conversation) + 1))
           /\ sends' = (sends \ {c})
                  \cup {[n |-> n, stage |-> "response",
                         created |-> Message(Len(conversation) + 1)]}
    /\ UNCHANGED <<messages, newMessage, loadCall>>
    /\ UNCHANGED outsideChat

\* sendMessage: setMessages((prev) => [...prev, msg])
addMessage(prev, msg) == Append(prev, msg)

\* sendMessage() after its await: the created message is added to the list
\* and the input is cleared
sendSettles(n) ==
    /\ \E c \in sends :
           /\ c.n = n
           /\ c.stage = "response"
           /\ messages' = addMessage(messages, c.created)
           /\ sends' = sends \ {c}
    /\ newMessage' = ""
    /\ UNCHANGED <<loadCall, conversation>>
    /\ UNCHANGED outsideChat

\* sendMessage() when the call throws: the catch does nothing
sendFails(n) ==
    /\ \E c \in sends :
           /\ c.n = n
           /\ sends' = sends \ {c}
    /\ UNCHANGED <<messages, newMessage, loadCall, conversation>>
    /\ UNCHANGED outsideChat

\* the list is ordered by creation time, oldest first
oldestFirst(list) ==
    \A i, j \in 1..Len(list) : i < j => list[i].created_at <= list[j].created_at

NextChat ==
    \/ setNewMessage
    \/ load
    \/ getConversation
    \/ loadSettles
    \/ sendMessage
    \/ \E n \in 1..MaxSends : createMessage(n)
    \/ \E n \in 1..MaxSends : sendSettles(n)
    \/ \E n \in 1..MaxSends : sendFails(n)

\* the conversation screen with its backend
SpecChat == Init /\ [][NextChat]_vars

----------------------------------------------------------------------------
(* useForm (hooks/useForm) with the validators of the login screens *)

Fields == {"email", "password"}

\* what the user types into the fields
Emails == {"", "ann", "ann@example.com"}
Passwords == {"", "12345", "123456"}

\* emailRegex.test(email) for /^[^\s@]+@[^\s@]+\.[^\s@]+$/ on Emails
emailRegexTest(email) == email = "ann@example.com"

\* utils/validation validateEmail: string | null
validateEmail(email) ==
    IF ~Truthy(email) THEN "Email is required"
    ELSE IF ~emailRegexTest(email) THEN "Invalid email format"
    ELSE Null

MinPasswordLen == 6

\* utils/validation validatePassword: string | null
validatePassword(password) ==
    IF ~Truthy(password) THEN "Password is required"
    ELSE IF Len(password) < MinPasswordLen
    THEN "Password must be at least 6 characters"
    ELSE Null

\* the validator result of one field
fieldError(f, v) ==
    IF f = "email" THEN validateEmail(v.email) ELSE validatePassword(v.password)

\* ConsultantLoginScreen validateLoginForm: a key for each field in error
validateLoginForm(v) ==
    [f \in {g \in Fields : Truthy(fieldError(g, v))} |-> fieldError(f, v)]

\* the validator of the documented LoginScreen: a key for every field,
\*   email: validateEmail(values.email) || ''
documentedValidator(v) == [f \in Fields |-> OrElse(fieldError(f, v), "")]

\* the validators a form is created with ("none": validate is undefined)
Validators == {"none", "validateLoginForm", "documentedValidator"}

\* validate(values)
validationErrors(v) ==
    IF validate = "validateLoginForm" THEN validateLoginForm(v)
    ELSE documentedValidator(v)

\* errors[field] of a FormErrors object, undefined when the key is missing
errorOf(e, f) == IF f \in DOMAIN e THEN e[f] ELSE Null

\* setFieldError(field, error): { ...prev, [field]: error }
setFieldError(e, field, msg) ==
    [f \in (DOMAIN e) \cup {field} |-> IF f = field THEN msg ELSE e[f]]

\* a screen mounts and creates its form
useForm(v) ==
    /\ validate = "unmounted"
    /\ validate' = v
    /\ UNCHANGED <<values, errors, touched, isSubmitting, formOp>>
    /\ UNCHANGED outsideForm

\* handleChange(field)(value): setFieldValue, and the field's error is
\* cleared once the user types
handleChange(field, value) ==
    /\ validate # "unmounted"
    /\ values[field] # value
    /\ values' = [values EXCEPT ![field] = value]
    /\ errors' = IF Truthy(errorOf(errors, field))
                 THEN setFieldError(errors, field, "") ELSE errors
    /\ formOp' = [NoFormOp EXCEPT !.name = "handleChange"]
    /\ UNCHANGED <<validate, touched, isSubmitting>>
    /\ UNCHANGED outsideForm

\* handleBlur(field)(): the field is touched, and validated if there is a
\* validator
handleBlur(field) ==
    /\ validate # "unmounted"
    /\ touched' = touched \cup {field}
    /\ errors' = IF validate # "none"
                    /\ Truthy(errorOf(validationErrors(values), field))
                 THEN setFieldError(errors, field,
                                    errorOf(validationErrors(values), field))
                 ELSE errors
    /\ formOp' = [NoFormOp EXCEPT !.name = "handleBlur"]
    /\ UNCHANGED <<validate, values, isSubmitting>>
    /\ UNCHANGED outsideForm

\* handleSubmit: Object.keys(validationErrors).length > 0
hasErrors(e) == DOMAIN e # {}

\* handleSubmit up to the await of onSubmit: with a validator, the errors are
\* set and, if the result has any key, every key of it is marked touched and
\* the handler returns; otherwise setIsSubmitting(true) and onSubmit(values)
\* (a second submit while onSubmit is awaited is left out)
handleSubmit ==
    /\ validate # "unmounted"
    /\ ~isSubmitting
    /\ IF validate # "none" /\ hasErrors(validationErrors(values))
       THEN /\ errors' = validationErrors(values)
            /\ touched' = touched \cup DOMAIN validationErrors(values)
            /\ formOp' = [NoFormOp EXCEPT !.name = "handleSubmit"]
            /\ UNCHANGED isSubmitting
       ELSE /\ errors' = IF validate # "none" THEN validationErrors(values)
                         ELSE errors
            /\ isSubmitting' = TRUE
            /\ formOp' = [name |-> "handleSubmit", called |-> TRUE,
                          passed |-> values]
            /\ UNCHANGED touched
    /\ UNCHANGED <<validate, values>>
    /\ UNCHANGED outsideForm

\* handleSubmit after the await: finally { setIsSubmitting(false) }
onSubmitSettles ==
    /\ isSubmitting
    /\ isSubmitting' = FALSE
    /\ UNCHANGED <<validate, values, errors, touched, formOp>>
    /\ UNCHANGED outsideForm

\* resetForm()
resetForm ==
    /\ validate # "unmounted"
    /\ ~isSubmitting
    /\ values' = initialValues
    /\ errors' = <<>>
    /\ touched' = {}
    /\ isSubmitting' = FALSE
    /\ formOp' = [NoFormOp EXCEPT !.name = "resetForm"]
    /\ UNCHANGED validate
    /\ UNCHANGED outsideForm

NextForm ==
    \/ \E v \in Validators : useForm(v)
    \/ \E value \in Emails : handleChange("email", value)
    \/ \E value \in Passwords : handleChange("password", value)
    \/ \E field \in Fields : handleBlur(field)
    \/ handleSubmit
    \/ onSubmitSettles
    \/ resetForm

\* a form of a login screen on its own
SpecForm == Init /\ [][NextForm]_vars

----------------------------------------------------------------------------
(* Claims *)

\* handleQuery has run to its end and nothing has touched the screen since
Done == pc = "idle" /\ phase = "done" /\ call.caller = "handleQuery"

\* the response the client handled is the Query Service's own
FromBackend == wire.stage = "response" /\ wire.from = "backend"

\* C1, as stated: every call of the query operation ends by returning a
\* response object; no exception is thrown to the caller.
C1_QueryNeverThrows == outcome.kind # "threw"

\* C1, amended: HttpClient.request always returns a structured response
\* (success with a 2xx status, or failure with an error message and the
\* status, 0 when the backend was unreachable); ragAPI.query returns the
\* body exactly when the request succeeded with a non-empty body and throws
\* otherwise; handleQuery catches what is thrown: it ends not loading, with
\* the message shown and no result.
C1_StructuredOrCaught ==
    Done =>
        /\ httpResp.success = (wire.stage = "response" /\ ResponseOk(wire.status))
        /\ httpResp.status = (IF wire.stage = "reject" THEN 0 ELSE wire.status)
        /\ ~httpResp.success => httpResp.error # Null
        /\ outcome.kind \in {"returned", "threw"}
        /\ (outcome.kind = "returned") = (httpResp.success /\ ~Falsy(httpResp.data))
        /\ outcome.kind = "returned" => result = httpResp.data
        /\ outcome.kind = "threw" => Truthy(error) /\ result = NullBody
        /\ ~loading

\* C1 witness: the request succeeded with an empty body, ragAPI.query threw
\* and handleQuery caught it.
C1_Witness ==
    /\ Done
    /\ httpResp.success
    /\ Falsy(httpResp.data)
    /\ outcome.kind = "threw"
    /\ error = "RAG query failed"

\* C2, as stated: a question whose length is outside [MinChars, MaxChars]
\* (as typed and as submitted alike) is rejected before any backend request
\* is started for it.
C2_OutOfRangeNeverSent ==
    ( /\ call.caller = "handleQuery"
      /\ QLen(call.raw) \notin MinChars..MaxChars
      /\ QLen(call.q) \notin MinChars..MaxChars )
        => fetches = 0 /\ wire.stage = "none"

\* C3: retrieval succeeded and the language-model provider failed: the call
\* returns (nothing is thrown), the result has non-empty chunks, an answer
\* with the degraded marker and a populated error, and the screen keeps the
\* result together with the error.
C3_DegradedKeepsSources ==
    (Done /\ FromBackend /\ srv.class = "Degraded") =>
        /\ outcome.kind = "returned"
        /\ Len(result.chunks) > 0
        /\ Len(result.chunks) = Len(srv.chunks)
        /\ hasDegradedMarker(result.answer)
        /\ Truthy(result.error)
        /\ error = result.error

\* C3 witness: a degraded answer has been handled by the screen.
C3_Witness ==
    /\ Done
    /\ FromBackend
    /\ srv.class = "Degraded"
    /\ srv.llmCalls = 2
    /\ result # NullBody

\* the first attempt of the call failed with a transient error: fetch
\* rejected (timeout, unreachable) or the status is 5xx
TransientFailure == wire.stage = "reject" \/ (wire.stage = "response" /\ wire.status >= 500)

\* the call failed with a validation-class error
ValidationFailure == wire.stage = "response" /\ wire.status \in {400, 422}

\* C4, as stated: a call that fails with a transient error is retried exactly
\* once; one that fails with a validation-class or configuration error is
\* never retried.
C4_TransientRetriedOnce ==
    /\ (Done /\ TransientFailure) => fetches = 2
    /\ (Done /\ ValidationFailure) => fetches = 1
    /\ (Done /\ FromBackend /\ srv.llmCalls > 0) => srv.llmCalls \in {1, 2}

\* C5: after a call that ended degraded or failed, a call in which retrieval
\* and generation both succeed gives a normal answer: no degraded marker, no
\* error in the result or on the screen, and the service is Ready.
C5_NotSticky ==
    (Done /\ FromBackend /\ srv.class = "Ok" /\ badBefore) =>
        /\ outcome.kind = "returned"
        /\ result.answer = GeneratedAnswer
        /\ ~hasDegradedMarker(result.answer)
        /\ ~Truthy(result.error)
        /\ error = Null
        /\ serviceState = "Ready"

\* C5 witness: a good call handled after an earlier bad one.
C5_Witness ==
    /\ Done
    /\ FromBackend
    /\ srv.class = "Ok"
    /\ badBefore
    /\ result.answer = GeneratedAnswer

\* C9, as stated: validation is exact at both boundaries on the submitted
\* text: MinChars - 1 rejected, MinChars accepted, MaxChars accepted,
\* MaxChars + 1 rejected.
C9_ExactBoundaries ==
    call.caller = "handleQuery" =>
        /\ QLen(call.q) = MinChars - 1 => fetches = 0
        /\ QLen(call.q) = MinChars => fetches = 1
        /\ QLen(call.q) = MaxChars => fetches = 1
        /\ QLen(call.q) = MaxChars + 1 => fetches = 0

\* a direct ragAPI call has ended
Ended == pc = "idle" /\ call.caller = "direct" /\ outcome.kind # "none"

IsQuery == call.op \in {"query", "queryGet"}

\* C7: with an empty corpus the status operation reports ready = false, and
\* the query operation returns no generated answer: it fails as unavailable
\* (or as invalid), or returns an empty retrieval with the error set.
C7_EmptyCorpusNotReady ==
    /\ ( /\ Ended /\ FromBackend /\ call.op = "getStatus"
         /\ httpResp.data.document_count = 0 )
           => /\ outcome.kind = "returned"
              /\ outcome.data.ready = FALSE
    /\ ( /\ Ended /\ FromBackend /\ IsQuery
         /\ srv.docCount = 0 )
           => /\ srv.class \in {"ValidationError", "UnavailableError"}
              /\ srv.llmCalls = 0
              /\ outcome.kind = "returned" =>
                    /\ outcome.data.answer # GeneratedAnswer
                    /\ outcome.data.chunks = <<>>
                    /\ Truthy(outcome.data.error)

\* C7 witness: ingestion built an empty corpus and the status call returned
\* document_count = 0 with ready = false.
C7_Witness ==
    /\ Ended
    /\ FromBackend
    /\ generation > 0
    /\ call.op = "getStatus"
    /\ outcome.kind = "returned"
    /\ outcome.data.document_count = 0
    /\ ~outcome.data.ready

\* C8, as stated: a query whose top_k is outside MinTopK..MaxTopK is rejected
\* before any backend request is made, for the POST and the GET form.
C8_BadTopKNeverSent ==
    ( /\ IsQuery
      /\ call.caller = "direct"
      /\ call.top_k # <<>>
      /\ call.top_k[1] \notin MinTopK..MaxTopK )
        => fetches = 0 /\ wire.stage = "none"

\* C10: the result of a valid request holds at most top_k chunks, top_k
\* being what the caller asked for, DefaultTopK when it asked for nothing.
C10_AtMostTopK ==
    (Ended /\ FromBackend /\ IsQuery /\ outcome.kind = "returned") =>
        Len(outcome.data.chunks) <= effectiveTopK(call.top_k)

\* C10 witness: the corpus holds more chunks than asked for and the result
\* holds exactly the number asked for.
C10_Witness ==
    /\ Ended
    /\ FromBackend
    /\ IsQuery
    /\ outcome.kind = "returned"
    /\ srv.docCount > effectiveTopK(call.top_k)
    /\ Len(outcome.data.chunks) = effectiveTopK(call.top_k)

\* the complete generation g, as ingestion built it
Complete(g) == BuildIndex(g, built[g])

IsPrefix(a, b) == Len(a) <= Len(b) /\ a = SubSeq(b, 1, Len(a))

\* C6: a query whose retrieval runs beside a rebuild reads one complete
\* generation, the one active when its retrieval began or a later complete
\* one: everything it has read is from a single completed generation, in
\* order and without gaps, and when its retrieval ends it has read all of it.
C6_OneCompleteGeneration ==
    \A i \in 1..MaxQueries :
        retr[i].st # "idle" =>
            \E g \in DOMAIN built :
                /\ g >= retr[i].gen
                /\ IsPrefix(retr[i].seen, Complete(g))
                /\ retr[i].st = "done" => retr[i].seen = Complete(g)

\* C6 witness: a retrieval has ended with the whole old generation read
\* after a rebuild swapped in the next one while it was reading.
C6_Witness ==
    \E i \in 1..MaxQueries :
        /\ retr[i].st = "done"
        /\ retr[i].gen < generation
        /\ retr[i].seen # <<>>
        /\ retr[i].seen = Complete(retr[i].gen)
        /\ index # <<>>
        /\ retr[i].seen # index


\* the retrieval result of the last query the Query Service served
Retrieved == srv.class \in {"Ok", "Degraded"}

C12_RoundTrip ==
    chunker = "rejoined" =>
        /\ chunk_overlap < chunk_size
        /\ rejoined = document
        /\ \A i \in 1..Len(chunks) :
               /\ Len(chunks[i]) <= chunk_size
               /\ i < Len(chunks) => Len(chunks[i]) = chunk_size

\* C12 witness: a document of several overlapping chunks, the final one
\* shorter than chunk_size, has been rejoined.
C12_Witness ==
    /\ chunker = "rejoined"
    /\ chunk_overlap > 0
    /\ Len(chunks) >= 3
    /\ Len(chunks[Len(chunks)]) < chunk_size
    /\ \E i, j \in 1..Len(document) : document[i] # document[j]


\* C13, as stated: every request eventually completes, with a response or
\* with an error: a call in flight that receives no response is ended by its
\* timeout.
C13_EveryRequestCompletes == (pc = "inflight") ~> (pc # "inflight")


\* C14, as stated: the protected screens are only ever reached by an
\* authenticated user: every redirect to the client tabs or the consultant
\* tabs is made while token and user are both set.
C14_HomeOnlyWhenAuthenticated == nav.to \in HomeScreens => nav.authed



\* C15, as stated: whenever the app sends an authenticated user to a home
\* screen, the screen is chosen by the user's role; in particular a
\* consultant is never sent to the client tabs.
C15_ConsultantNeverToClientTabs ==
    (nav.to \in HomeScreens /\ nav.authed /\ nav.user.role = "consultant")
        => nav.to = navigateToHome(nav.user.role)



\* C16, as stated: when the user logs out (a logout control runs to its
\* redirect), auth_token and auth_user are gone from secure storage, the
\* token and the user in memory are null and the user is on the login screen,
\* so that a restart finds no session to restore.
C16_LoggedOut ==
    [][(authOp' # authOp /\ authOp'.name \in {"handleLogout", "LogoutButton"})
           => /\ auth_token' = Null
              /\ auth_user' = <<>>
              /\ token' = Null
              /\ user' = NoUser
              /\ route' = "login"]_vars



C18_FallbackToMock ==
    (/\ authOp.name \in {"loginConsultant", "signupConsultant"}
     /\ call.caller = "auth"
     /\ wire.stage = "reject"
     /\ pc = "idle")
        => /\ authOp.stage = "done"
           /\ authError = Null
           /\ isAuthenticated(user, token)



\* C20: a request of the HttpClient that receives 401 leaves auth_token
\* deleted, a response with any other status and a network failure leave it
\* as it was; every request is sent with an Authorization header exactly
\* when a token is stored, and only a successful login stores a token again.
C20_TokenDeletedOn401 ==
    [][/\ (pc = "settled" /\ pc' # "settled") =>
              auth_token' = IF wire.stage = "response" /\ wire.status = 401
                            THEN Null ELSE auth_token
       /\ (pc # "inflight" /\ pc' = "inflight") =>
              wire'.authorized = (auth_token' # Null /\ auth_token' # "")
       /\ (auth_token' # auth_token /\ auth_token' # Null) =>
              /\ authOp.stage = "profile"
              /\ authOp'.stage = "done"
              /\ auth_token' = lastLogin'.token]_vars

\* C20 witness: after a 401 deleted the stored token (the token in memory is
\* still set), a later request is in flight without an Authorization header.
C20_Witness ==
    /\ pc = "inflight"
    /\ ~wire.authorized
    /\ auth_token = Null
    /\ Truthy(token)



\* C19, as stated: handleSubmit calls onSubmit with the current values
\* exactly when validation reports no error for any field (no validator, or
\* every field's message absent or empty); otherwise onSubmit is not called
\* and the fields with errors are marked touched.
C19_SubmitsExactlyWhenValid ==
    formOp.name = "handleSubmit" =>
        LET invalid == {f \in Fields : validate # "none"
                                       /\ Truthy(errorOf(validationErrors(values), f))}
        IN /\ formOp.called <=> invalid = {}
           /\ formOp.called => formOp.passed = values
           /\ invalid \subseteq touched



\* C21, as stated: a login or signup attempt that fails leaves the session
\* unchanged: when the attempt fails, the token and the user in memory and
\* the stored auth_token and auth_user are what they were, and the context
\* error message is set.
C21_FailedAttemptKeepsSession ==
    [][(/\ authOp.name \in {"loginConsultant", "signupConsultant"}
        /\ authOp.stage \in {"login", "signup", "profile"}
        /\ authOp'.stage = "failed")
           => /\ token' = token
              /\ user' = user
              /\ auth_token' = auth_token
              /\ auth_user' = auth_user
              /\ authError' # Null /\ authError' # ""]_vars



\* C22, as stated: once auth initialization has finished, the entry screen
\* eventually redirects, to a home screen or to the login screen, in every
\* reachable auth state.
C22_EntryRedirects == (route = "index" /\ ~isLoading) ~> (route # "index")



\* C23, as stated: isLoading is true whenever at least one auth operation is
\* still in flight, also when two operations overlap, and false once all of
\* them have settled.
C23_LoadingWhileInFlight == isLoading <=> inFlight



\* C24, as stated: while the component using useAsync stays mounted, every
\* execution ends, when the async function settles, with loading = false and
\* either data or error set, also after the dependency list changed.
C24_ExecutionEnds ==
    [][(hook.mounted /\ runs' < runs)
           => /\ ~state'.loading
              /\ state'.data # Null \/ state'.error # Null]_vars



\* C25, as stated: the conversation screen always shows the messages oldest
\* first: once the initial load has ended (the list is on screen), the list
\* is ordered by creation time, after every send too, also when several
\* sends are in flight at once.
C25_OldestFirst == loadCall.stage = "done" => oldestFirst(messages)

====
